---- MODULE Spec2Model ----
(***************************************************************************)
(* Model of the client-side vessel tracker (static/js/app.js, class        *)
(* VesselTracker): the vessel registry, the marker map, the selection,     *)
(* the debounced list render and the handlers of the inbound socket        *)
(* events.  JavaScript values are modelled with their dynamic type, so     *)
(* that truthiness tests, comparisons with coercion and method calls on    *)
(* null behave as they do in the browser.                                  *)
(***************************************************************************)
EXTENDS Integers, Sequences, FiniteSets, TLC

(***************************************************************************)
(* Bounds of the model.                                                    *)
(***************************************************************************)
MaxId == 2

MaxEvents == 3

TimeStep == 250

MaxSnapshot == 3

MaxExtra == 1

(***************************************************************************)
(* JavaScript values.  A string is a sequence of one-character strings.    *)
(***************************************************************************)
Undef == [t |-> "undefined"]

Null == [t |-> "null"]

NaN == [t |-> "NaN"]

Inf(sg) == [t |-> "Infinity", sign |-> sg]

Num(n) == [t |-> "number", n |-> n]

Str(s) == [t |-> "string", s |-> s]

\* typeof v
TypeOf(v) ==
    CASE v.t \in {"number", "NaN", "Infinity"} -> "number"
      [] v.t = "string" -> "string"
      [] v.t = "null" -> "object"
      [] OTHER -> "undefined"

\* ToBoolean(v): the test applied by `v && ...`, `v || ...` and `v ? :`
Truthy(v) ==
    CASE v.t = "number" -> v.n # 0
      [] v.t = "Infinity" -> TRUE
      [] v.t = "string" -> v.s # << >>
      [] OTHER -> FALSE

\* a || d
OrElse(v, d) == IF Truthy(v) THEN v ELSE d

\* v != null  (loose inequality: false for null and undefined only)
NotNullish(v) == v.t \notin {"undefined", "null"}

Digits == <<"0", "1", "2", "3", "4", "5", "6", "7", "8", "9">>

DigitVal(c) == CHOOSE d \in 0..9 : Digits[d + 1] = c

IsDigit(c) == \E d \in 0..9 : Digits[d + 1] = c

RECURSIVE DigitsToNat(_)
DigitsToNat(s) ==
    IF s = << >> THEN 0
    ELSE 10 * DigitsToNat(SubSeq(s, 1, Len(s) - 1)) + DigitVal(s[Len(s)])

\* ToNumber(v): the coercion applied by isNaN() and by the relational operators
ToNumber(v) ==
    CASE v.t = "undefined" -> NaN
      [] v.t = "null" -> Num(0)
      [] v.t = "string" ->
            IF \A i \in 1..Len(v.s) : IsDigit(v.s[i]) THEN Num(DigitsToNat(v.s))
            ELSE IF Len(v.s) > 1 /\ v.s[1] = "-"
                    /\ \A i \in 2..Len(v.s) : IsDigit(v.s[i])
                 THEN Num(0 - DigitsToNat(SubSeq(v.s, 2, Len(v.s))))
                 ELSE NaN
      [] OTHER -> v

\* isNaN(v)
IsNaN(v) == ToNumber(v).t = "NaN"

\* a >= n and a <= n for a number literal n, with the coercion of a
GeNum(a, n) ==
    LET x == ToNumber(a)
    IN  CASE x.t = "number" -> x.n >= n
          [] x.t = "Infinity" -> x.sign > 0
          [] OTHER -> FALSE

LeNum(a, n) ==
    LET x == ToNumber(a)
    IN  CASE x.t = "number" -> x.n <= n
          [] x.t = "Infinity" -> x.sign < 0
          [] OTHER -> FALSE

RECURSIVE NatToDigits(_)
NatToDigits(n) ==
    IF n < 10 THEN <<Digits[n + 1]>>
    ELSE NatToDigits(n \div 10) \o <<Digits[(n % 10) + 1]>>

IntToChars(n) == IF n < 0 THEN <<"-">> \o NatToDigits(0 - n) ELSE NatToDigits(n)

Zeros(d) == [i \in 1..d |-> "0"]

\* String(v), as applied by a template literal and by toString()
ToStr(v) ==
    CASE v.t = "string" -> v.s
      [] v.t = "number" -> IntToChars(v.n)
      [] v.t = "NaN" -> <<"N", "a", "N">>
      [] v.t = "Infinity" ->
            (IF v.sign < 0 THEN <<"-">> ELSE << >>)
                \o <<"I", "n", "f", "i", "n", "i", "t", "y">>
      [] v.t = "null" -> <<"n", "u", "l", "l">>
      [] OTHER -> <<"u", "n", "d", "e", "f", "i", "n", "e", "d">>

\* v.toFixed(d) exists only on numbers; on null it is a TypeError
HasToFixed(v) == TypeOf(v) = "number"

ToFixed(v, d) ==
    IF v.t = "number"
    THEN IntToChars(v.n) \o (IF d > 0 THEN <<".">> \o Zeros(d) ELSE << >>)
    ELSE ToStr(v)

\* v.toLowerCase() exists only on strings
HasToLowerCase(v) == v.t = "string"

Upper ==
    <<"A", "B", "C", "D", "E", "F", "G", "H", "I", "J", "K", "L", "M",
      "N", "O", "P", "Q", "R", "S", "T", "U", "V", "W", "X", "Y", "Z">>

Lower ==
    <<"a", "b", "c", "d", "e", "f", "g", "h", "i", "j", "k", "l", "m",
      "n", "o", "p", "q", "r", "s", "t", "u", "v", "w", "x", "y", "z">>

LowerTable ==
    [c \in {Upper[i] : i \in 1..Len(Upper)} |->
        Lower[CHOOSE i \in 1..Len(Upper) : Upper[i] = c]]

LowerChar(c) == IF c \in DOMAIN LowerTable THEN LowerTable[c] ELSE c

\* s.toLowerCase()
ToLowerCase(s) == [i \in 1..Len(s) |-> LowerChar(s[i])]

\* s.includes(t)
Includes(s, term) ==
    \E i \in 0..(Len(s) - Len(term)) : SubSeq(s, i + 1, i + Len(term)) = term

\* collation order of the characters that occur in lower-cased names
Collation == <<"0", "1", "2", "3", "4", "5", "6", "7", "8", "9",
               "a", "b", "k", "n", "o", "u", "w">>

RankTable ==
    [c \in {Collation[i] : i \in 1..Len(Collation)} |->
        CHOOSE i \in 1..Len(Collation) : Collation[i] = c]

Rank(c) == IF c \in DOMAIN RankTable THEN RankTable[c] ELSE 0

\* a.localeCompare(b) < 0: at the first place where a and b differ, a has
\* ended or has the smaller character
LocaleLess(a, b) ==
    \E k \in 1..Len(b) :
        /\ k <= Len(a) + 1
        /\ \A q \in 1..(k - 1) : Rank(a[q]) = Rank(b[q])
        /\ k > Len(a) \/ Rank(a[k]) < Rank(b[k])

(***************************************************************************)
(* Vessel records, as delivered by the socket events.                      *)
(***************************************************************************)
Ids == 1..MaxId

C(s) == Str(s)

Unknown == <<"U", "n", "k", "n", "o", "w", "n">>

NA == <<"N", "/", "A">>

\* the literal 'unknown' that replaces a missing status category
unknownCat == <<"u", "n", "k", "n", "o", "w", "n">>

\* this.statusColors (initMap)
statusColors ==
    [underway |-> "#22c55e", anchored |-> "#3b82f6", moored |-> "#ef4444",
     restricted |-> "#eab308", special |-> "#a855f7", unknown |-> "#6b7280"]

\* this.statusSymbols (initMap), named by what the emoji shows
statusSymbols ==
    [underway |-> "ship", anchored |-> "anchor", moored |-> "red-circle",
     restricted |-> "warning", special |-> "fishing", unknown |-> "question"]

Underway == <<"u", "n", "d", "e", "r", "w", "a", "y">>

Moored == <<"m", "o", "o", "r", "e", "d">>

\* the property key a status category selects in statusColors / statusSymbols
StatusKey(cat) ==
    LET k == ToStr(cat)
    IN  CASE k = Underway -> "underway"
          [] k = <<"a", "n", "c", "h", "o", "r", "e", "d">> -> "anchored"
          [] k = Moored -> "moored"
          [] k = <<"r", "e", "s", "t", "r", "i", "c", "t", "e", "d">> -> "restricted"
          [] k = <<"s", "p", "e", "c", "i", "a", "l">> -> "special"
          [] k = unknownCat -> "unknown"
          [] OTHER -> "none"

\* this.statusColors[cat] || this.statusColors.unknown
ColorOf(cat) ==
    IF StatusKey(cat) = "none" THEN statusColors.unknown
    ELSE statusColors[StatusKey(cat)]

\* this.statusSymbols[cat] || this.statusSymbols.unknown
SymbolOf(cat) ==
    IF StatusKey(cat) = "none" THEN statusSymbols.unknown
    ELSE statusSymbols[StatusKey(cat)]

\* createVesselIcon(heading, statusCategory, isSelected)
createVesselIcon(heading, statusCategory, isSelected) ==
    [color |-> ColorOf(statusCategory),
     size |-> IF isSelected THEN 24 ELSE 18,
     strokeWidth |-> IF isSelected THEN 3 ELSE 2,
     rotation |-> ToStr(OrElse(heading, Num(0)))]

\* v !== undefined ? v.toFixed(d) : 'N/A'  raises a TypeError in exactly this case
FixedThrows(v) == v.t # "undefined" /\ ~HasToFixed(v)

FixedOrNA(v, d) == IF v.t # "undefined" THEN ToFixed(v, d) ELSE NA

\* createPopupContent(vessel): does it raise, and the content it returns
PopupThrows(vessel) == FixedThrows(vessel.speed) \/ FixedThrows(vessel.heading)

createPopupContent(vessel) ==
    [name |-> ToStr(OrElse(vessel.name, C(Unknown))),
     type |-> ToStr(OrElse(vessel.vessel_type, C(Unknown))),
     destination |-> ToStr(OrElse(vessel.destination, C(Unknown))),
     speed |-> FixedOrNA(vessel.speed, 1),
     heading |-> FixedOrNA(vessel.heading, 0),
     nearbyPort |-> ToStr(OrElse(vessel.nearby_port, C(NA))),
     statusName |-> ToStr(OrElse(vessel.navigational_status, C(Unknown))),
     statusColor |-> ColorOf(OrElse(vessel.status_category, C(unknownCat))),
     statusSymbol |-> SymbolOf(OrElse(vessel.status_category, C(unknownCat))),
     mmsi |-> vessel.mmsi]

\* createVesselCard(vessel): does it raise, and the row it returns
CardThrows(vessel) ==
    FixedThrows(vessel.speed) \/ FixedThrows(vessel.latitude)
        \/ FixedThrows(vessel.longitude)

createVesselCard(vessel, selected) ==
    [mmsi |-> vessel.mmsi,
     selected |-> (selected = vessel.mmsi),
     name |-> ToStr(OrElse(vessel.name, C(Unknown))),
     type |-> ToStr(OrElse(vessel.vessel_type, C(Unknown))),
     destination |-> ToStr(OrElse(vessel.destination, C(Unknown))),
     speed |-> FixedOrNA(vessel.speed, 1),
     lat |-> FixedOrNA(vessel.latitude, 4),
     lon |-> FixedOrNA(vessel.longitude, 4),
     location |-> ToStr(OrElse(vessel.nearby_port, C(Unknown))),
     statusName |-> ToStr(OrElse(vessel.navigational_status, C(Unknown))),
     statusColor |-> ColorOf(OrElse(vessel.status_category, C(unknownCat))),
     statusSymbol |-> SymbolOf(OrElse(vessel.status_category, C(unknownCat)))]

\* keys of statusCounts, in the order Object.entries visits them
StatusOrder ==
    <<"underway", "anchored", "moored", "restricted", "special", "unknown">>

\* statusCounts after the forEach of createClusterIcon: a member counts for
\* its status category, 'unknown' if it has none, when statusCounts has that key
statusCounts(reg, members) ==
    [k \in {StatusOrder[i] : i \in 1..Len(StatusOrder)} |->
        Cardinality({m \in members :
            /\ m \in DOMAIN reg
            /\ StatusKey(OrElse(reg[m].status_category, C(unknownCat))) = k})]

\* the loop over Object.entries(statusCounts): dominantStatus starts as
\* 'unknown' with maxCount 0 and a category takes over on a greater count
dominantStatus(counts) ==
    LET Step[i \in 0..Len(StatusOrder)] ==
            IF i = 0 THEN [dominantStatus |-> "unknown", maxCount |-> 0]
            ELSE IF counts[StatusOrder[i]] > Step[i - 1].maxCount
                 THEN [dominantStatus |-> StatusOrder[i],
                       maxCount |-> counts[StatusOrder[i]]]
                 ELSE Step[i - 1]
    IN  Step[Len(StatusOrder)].dominantStatus

\* tiers with the boundary counts in the lower tier
clusterTierInclusive(count) ==
    IF count <= 10
    THEN [size |-> 40, fontSize |-> 14, borderWidth |-> 2,
          className |-> "marker-cluster-small"]
    ELSE IF count <= 50
    THEN [size |-> 50, fontSize |-> 16, borderWidth |-> 3,
          className |-> "marker-cluster-medium"]
    ELSE IF count <= 100
    THEN [size |-> 60, fontSize |-> 18, borderWidth |-> 3,
          className |-> "marker-cluster-large"]
    ELSE [size |-> 70, fontSize |-> 20, borderWidth |-> 4,
          className |-> "marker-cluster-mega"]

\* size, fontSize, borderWidth and className of createClusterIcon, by count
clusterTier(count) ==
    IF count < 10
    THEN [size |-> 40, fontSize |-> 14, borderWidth |-> 2,
          className |-> "marker-cluster-small"]
    ELSE IF count < 50
    THEN [size |-> 50, fontSize |-> 16, borderWidth |-> 3,
          className |-> "marker-cluster-medium"]
    ELSE IF count < 100
    THEN [size |-> 60, fontSize |-> 18, borderWidth |-> 3,
          className |-> "marker-cluster-large"]
    ELSE [size |-> 70, fontSize |-> 20, borderWidth |-> 4,
          className |-> "marker-cluster-mega"]

\* ${count >= 100 ? count + '+' : count}
clusterLabel(count) ==
    IF count >= 100 THEN IntToChars(count) \o <<"+">> ELSE IntToChars(count)

\* createClusterIcon(cluster) for a cluster of the given member markers; the
\* locals statusCounts and dominantStatus are kept beside the color and
\* symbol they select
createClusterIcon(reg, members) ==
    LET count == Cardinality(members)
        dominant == dominantStatus(statusCounts(reg, members))
        tier == clusterTier(count)
    IN  [className |-> tier.className,
         size |-> tier.size,
         fontSize |-> tier.fontSize,
         borderWidth |-> tier.borderWidth,
         label |-> clusterLabel(count),
         statusCounts |-> statusCounts(reg, members),
         dominantStatus |-> dominant,
         color |-> statusColors[dominant],
         symbol |-> statusSymbols[dominant]]

\* no cluster icon has been made yet
NoClusterIcon == [members |-> {}, icon |-> [className |-> "none"]]

\* a test with the upper bounds excluded
isPlottableOpen(vessel) ==
    LET lat == vessel.latitude
        lon == vessel.longitude
    IN  /\ NotNullish(lat) /\ NotNullish(lon)
        /\ TypeOf(lat) = "number" /\ TypeOf(lon) = "number"
        /\ ~IsNaN(lat) /\ ~IsNaN(lon)
        /\ GeNum(lat, -90) /\ LeNum(lat, 89)
        /\ GeNum(lon, -180) /\ LeNum(lon, 179)

\* a test by truthiness, as the legacy handler makes it
isPlottableTruthy(vessel) == Truthy(vessel.latitude) /\ Truthy(vessel.longitude)

\* the test of processBatchUpdate that admits a record to marker reconciliation
isPlottable(vessel) ==
    LET lat == vessel.latitude
        lon == vessel.longitude
    IN  /\ NotNullish(lat) /\ NotNullish(lon)
        /\ TypeOf(lat) = "number" /\ TypeOf(lon) = "number"
        /\ ~IsNaN(lat) /\ ~IsNaN(lon)
        /\ GeNum(lat, -90) /\ LeNum(lat, 90)
        /\ GeNum(lon, -180) /\ LeNum(lon, 180)

\* the test of updateVessel (legacy event) and of selectVessel
hasTruthyPosition(vessel) == Truthy(vessel.latitude) /\ Truthy(vessel.longitude)

\* L.latLng([lat, lon]) (Leaflet): raises on NaN, else stores the numbers
LatLngThrows(lat, lon) == IsNaN(lat) \/ IsNaN(lon)

LatLng(lat, lon) == [lat |-> ToNumber(lat), lng |-> ToNumber(lon)]

(***************************************************************************)
(* The state of the VesselTracker object and of the page it drives.        *)
(***************************************************************************)
VARIABLES
    vessels,            \* this.vessels: Map mmsi -> latest record
    vesselOrder,        \* key order of this.vessels (insertion order of a Map)
    markers,            \* this.markers: Map mmsi -> marker
    markerCluster,      \* mmsi of the layers added to this.markerCluster
    selectedVesselMMSI, \* this.selectedVesselMMSI, 0 for null
    updateStats,        \* this.updateStats.count
    listTimers,         \* pending timers of updateListDebounced (ms left)
    searchTimers,       \* pending timers of the debounced search handler
    searchValue,        \* value of the #search-vessel input
    vesselList,         \* content of #vessel-list
    vesselCount,        \* number shown in #vessel-count, -1 before any render
    connectionStatus,   \* text of #connection-status
    mapView,            \* centre and zoom of the map
    zoomCallbacks,      \* zoomToShowLayer callbacks not yet run
    popupTimers,        \* pending openPopup timers of selectVessel
    openPopup,          \* mmsi of the marker whose popup is open, 0 for none
    nEvents,            \* inbound and user events so far
    sinceUpdate,        \* ms since the last inbound update, up to ListWait
    burst,              \* history of the current burst of inbound updates
    plotted,            \* history: ids a record of which passed its channel's test
    lastRecord,         \* history: the record received last for each id
    raised,             \* history: the last handler ended by raising
    clusterIcon,        \* the icon createClusterIcon returned last, and for which markers
    created,            \* history: the ids of the markers made by L.marker(...).bindPopup(...), in order
    statsMonitor        \* the window of the update rate: whole seconds since lastReset at the
                        \* last tick, #update-rate in tenths, and (history) records received

vars ==
    <<vessels, vesselOrder, markers, markerCluster, selectedVesselMMSI,
      updateStats, listTimers, searchTimers, searchValue, vesselList,
      vesselCount, connectionStatus, mapView, zoomCallbacks, popupTimers,
      openPopup, nEvents, sinceUpdate, burst, plotted, lastRecord, raised,
      clusterIcon, created, statsMonitor>>

\* wait of updateListDebounced (constructor) and of the search handler
ListWait == 500

SearchWait == 300

\* delay of the openPopup timer in selectVessel
PopupDelay == 300

\* row cap of updateVesselList
DisplayCap == 150

\* minimum zoom of the recentring in selectVessel, and zoom of initMap
SelectZoom == 10

InitialZoom == 4

\* a set() that merges the new record into the old one, field by field
MapSetMerge(m, k, v) ==
    [x \in (DOMAIN m) \cup {k} |->
        IF x # k THEN m[x]
        ELSE IF k \notin DOMAIN m THEN v
        ELSE [f \in DOMAIN v |->
                IF f # "mmsi" /\ v[f] = Undef THEN m[k][f] ELSE v[f]]]

\* a set that keeps nothing but the entry it stores
MapSetOnly(m, k, v) == [x \in {k} |-> v]

\* this.vessels.set(mmsi, vessel)
MapSet(m, k, v) == [x \in (DOMAIN m) \cup {k} |-> IF x = k THEN v ELSE m[x]]

OrderSet(order, k) ==
    IF \E i \in 1..Len(order) : order[i] = k THEN order ELSE Append(order, k)

\* a debounce that starts a timer without clearing the pending one
debounceNoClear(timers, wait) == Append(timers, wait)

\* debounce(func, wait): the returned function clears the pending timer of
\* this closure and starts a new one
debounce(timers, wait) == <<wait>>

\* the first loop of processBatchUpdate: registry after storing every record
RECURSIVE StoreAll(_, _)
StoreAll(reg, batch) ==
    IF batch = << >> THEN reg
    ELSE StoreAll([vessels |-> MapSet(reg.vessels, Head(batch).mmsi, Head(batch)),
                   order |-> OrderSet(reg.order, Head(batch).mmsi)],
                  Tail(batch))

\* a reconciliation that takes every record of the batch
markersToUpdateAll(batch) == batch

\* a reconciliation that stops after the first record of the batch that
\* passes the test
markersToUpdateFirst(batch) ==
    IF \E i \in 1..Len(batch) : isPlottable(batch[i])
    THEN <<batch[CHOOSE i \in 1..Len(batch) :
                    /\ isPlottable(batch[i])
                    /\ \A j \in 1..(i - 1) : ~isPlottable(batch[j])]>>
    ELSE << >>

\* markersToUpdate: the records of the batch that pass the test, in order
RECURSIVE markersToUpdate(_)
markersToUpdate(batch) ==
    IF batch = << >> THEN << >>
    ELSE (IF isPlottable(Head(batch)) THEN <<Head(batch)>> ELSE << >>)
            \o markersToUpdate(Tail(batch))

\* a reconciliation that makes a new marker for every record
MarkerStepAlwaysNew(m, vessel, selected) ==
    [markers |-> MapSet(m.markers, vessel.mmsi,
                    [mmsi |-> vessel.mmsi,
                     latlng |-> LatLng(vessel.latitude, vessel.longitude),
                     icon |-> createVesselIcon(OrElse(vessel.heading, Num(0)),
                                  OrElse(vessel.status_category, C(unknownCat)),
                                  selected = vessel.mmsi),
                     popup |-> createPopupContent(vessel),
                     clicks |-> 1]),
     cluster |-> m.cluster \cup {vessel.mmsi},
     made |-> Append(m.made, vessel.mmsi),
     threw |-> FALSE]

\* one iteration of updateMarkersBatch / the body of updateMarker; m is
\* [markers, cluster, threw]
MarkerStep(m, vessel, selected) ==
    LET mmsi == vessel.mmsi
        icon == createVesselIcon(OrElse(vessel.heading, Num(0)),
                                 OrElse(vessel.status_category, C(unknownCat)),
                                 selected = mmsi)
        lat == vessel.latitude
        lon == vessel.longitude
    IN  IF mmsi \in DOMAIN m.markers
        THEN IF LatLngThrows(lat, lon) THEN [m EXCEPT !.threw = TRUE]
             ELSE IF PopupThrows(vessel)
             THEN [m EXCEPT !.markers[mmsi].latlng = LatLng(lat, lon),
                            !.markers[mmsi].icon = icon,
                            !.threw = TRUE]
             ELSE [m EXCEPT !.markers[mmsi].latlng = LatLng(lat, lon),
                            !.markers[mmsi].icon = icon,
                            !.markers[mmsi].popup = createPopupContent(vessel)]
        ELSE IF LatLngThrows(lat, lon) \/ PopupThrows(vessel)
             THEN [m EXCEPT !.threw = TRUE]
             ELSE [markers |-> MapSet(m.markers, mmsi,
                                  [mmsi |-> mmsi, latlng |-> LatLng(lat, lon),
                                   icon |-> icon,
                                   popup |-> createPopupContent(vessel),
                                   clicks |-> 1]),
                   cluster |-> m.cluster \cup {mmsi},
                   made |-> Append(m.made, mmsi),
                   threw |-> FALSE]

RECURSIVE updateMarkersBatch(_, _, _)
updateMarkersBatch(m, recs, selected) ==
    IF recs = << >> \/ m.threw THEN m
    ELSE updateMarkersBatch(MarkerStep(m, Head(recs), selected), Tail(recs), selected)

\* updateMarker(vessel)
updateMarker(m, vessel, selected) == MarkerStep(m, vessel, selected)

\* processBatchUpdate(vessels): the state it leaves; the list render is
\* scheduled only when the marker reconciliation did not raise
processBatchUpdate(st, batch) ==
    LET reg == StoreAll([vessels |-> st.vessels, order |-> st.order], batch)
        m == updateMarkersBatch([markers |-> st.markers, cluster |-> st.cluster,
                                 made |-> << >>, threw |-> FALSE],
                                markersToUpdate(batch), st.selected)
    IN  [vessels |-> reg.vessels, order |-> reg.order,
         markers |-> m.markers, cluster |-> m.cluster, made |-> m.made,
         selected |-> st.selected,
         listTimers |-> IF m.threw THEN st.listTimers
                        ELSE debounce(st.listTimers, ListWait),
         threw |-> m.threw]

\* updateVessel(vessel): the handler of the legacy vessel_update event
updateVessel(st, vessel) ==
    LET reg == StoreAll([vessels |-> st.vessels, order |-> st.order], <<vessel>>)
        m0 == [markers |-> st.markers, cluster |-> st.cluster, made |-> << >>,
               threw |-> FALSE]
        m == IF hasTruthyPosition(vessel) THEN updateMarker(m0, vessel, st.selected)
             ELSE m0
    IN  [vessels |-> reg.vessels, order |-> reg.order,
         markers |-> m.markers, cluster |-> m.cluster, made |-> m.made,
         selected |-> st.selected,
         listTimers |-> IF m.threw THEN st.listTimers
                        ELSE debounce(st.listTimers, ListWait),
         threw |-> m.threw]

\* the part of the state the inbound handlers read and write
State ==
    [vessels |-> vessels, order |-> vesselOrder, markers |-> markers,
     cluster |-> markerCluster, selected |-> selectedVesselMMSI,
     listTimers |-> listTimers, threw |-> FALSE]

(***************************************************************************)
(* The list render.                                                        *)
(***************************************************************************)
\* a sort key that keeps the letter case
NameKeyCaseSensitive(vessel) == ToStr(OrElse(vessel.name, C(Unknown)))

\* (a.name || 'Unknown').toLowerCase(): the sort key of updateVesselList
NameKeyThrows(vessel) == ~HasToLowerCase(OrElse(vessel.name, C(Unknown)))

NameKey(vessel) == ToLowerCase(ToStr(OrElse(vessel.name, C(Unknown))))

\* the one element of a singleton set
The(S) == CHOOSE v \in S : TRUE

\* values.sort(by name): Array.prototype.sort is stable, so a record stands
\* behind the records with a smaller key and the earlier ones with an equal key
SortedBy(values, key) ==
    The({The({[q \in 1..Len(values) |-> values[at[q]]] :
              at \in {[q \in 1..Len(values) |->
                          CHOOSE i \in 1..Len(values) : pos[i] = q]}}) :
         pos \in {[i \in 1..Len(values) |->
                     1 + Cardinality({j \in 1..Len(values) :
                             \/ LocaleLess(key[j], key[i])
                             \/ j < i /\ ~LocaleLess(key[i], key[j])})]}})

SortByName(values) ==
    The({SortedBy(values, key) :
         key \in {[i \in 1..Len(values) |-> NameKey(values[i])]}})

\* (f || '').toLowerCase() of matchesSearch
FieldThrows(f) == ~HasToLowerCase(OrElse(f, C(<< >>)))

FieldLower(f) == ToLowerCase(ToStr(OrElse(f, C(<< >>))))

MatchThrows(vessel) ==
    \/ FieldThrows(vessel.name) \/ FieldThrows(vessel.destination)
    \/ FieldThrows(vessel.vessel_type) \/ FieldThrows(vessel.nearby_port)

\* a match that takes the search term as typed
matchesSearchAsTyped(vessel, searchTerm) ==
    \/ Includes(FieldLower(vessel.name), searchTerm)
    \/ Includes(ToLowerCase(ToStr(OrElse(Num(vessel.mmsi), C(<< >>)))), searchTerm)
    \/ Includes(FieldLower(vessel.destination), searchTerm)
    \/ Includes(FieldLower(vessel.vessel_type), searchTerm)
    \/ Includes(FieldLower(vessel.nearby_port), searchTerm)

\* matchesSearch(vessel, searchTerm)
matchesSearch(vessel, searchTerm) ==
    LET term == ToLowerCase(searchTerm)
    IN  \/ Includes(FieldLower(vessel.name), term)
        \/ Includes(ToLowerCase(ToStr(OrElse(Num(vessel.mmsi), C(<< >>)))), term)
        \/ Includes(FieldLower(vessel.destination), term)
        \/ Includes(FieldLower(vessel.vessel_type), term)
        \/ Includes(FieldLower(vessel.nearby_port), term)

\* sortedVessels.filter(v => this.matchesSearch(v, searchValue))
Filter(seq, term) ==
    LET Test(v) == matchesSearch(v, term)
    IN  SelectSeq(seq, Test)

Min(a, b) == IF a <= b THEN a ELSE b

Max(a, b) == IF a >= b THEN a ELSE b

\* filteredVessels.slice(0, 150)
Slice(seq, n) == SubSeq(seq, 1, Min(n, Len(seq)))

\* the cards of updateVesselList and the content of #vessel-list they make
RenderCards(displayVessels, nFiltered, selected, nVessels, list0) ==
    IF \E i \in 1..Len(displayVessels) : CardThrows(displayVessels[i])
    THEN [list |-> list0, count |-> nVessels, threw |-> TRUE]
    ELSE [list |-> IF displayVessels = << >>
                   THEN [kind |-> "nomatch", rows |-> << >>, more |-> 0]
                   ELSE [kind |-> "cards",
                         rows |-> [i \in 1..Len(displayVessels) |->
                                     createVesselCard(displayVessels[i], selected)],
                         more |-> IF nFiltered > DisplayCap THEN nFiltered ELSE 0],
          count |-> nVessels, threw |-> FALSE]

\* updateVesselList(): the content of #vessel-list and #vessel-count it
\* leaves, given their content before; a raise leaves the list as it was
RenderValues(values, search, selected, list0) ==
    IF \/ Len(values) >= 2 /\ \E i \in 1..Len(values) : NameKeyThrows(values[i])
       \/ search # << >> /\ \E i \in 1..Len(values) : MatchThrows(values[i])
    THEN [list |-> list0, count |-> Len(values), threw |-> TRUE]
    ELSE The({The({The({RenderCards(displayVessels, Len(filteredVessels),
                                    selected, Len(values), list0) :
                        displayVessels \in {Slice(filteredVessels, DisplayCap)}}) :
                   filteredVessels \in {IF search # << >>
                                        THEN Filter(sortedVessels, search)
                                        ELSE sortedVessels}}) :
              sortedVessels \in {SortByName(values)}})

updateVesselList(reg, order, search, selected, list0, count0) ==
    IF Len(order) = 0
    THEN [list |-> [kind |-> "waiting", rows |-> << >>, more |-> 0],
          count |-> count0, threw |-> FALSE]
    ELSE The({RenderValues(values, search, selected, list0) :
              values \in {[i \in 1..Len(order) |-> reg[order[i]]]}})

(***************************************************************************)
(* Selection.                                                              *)
(***************************************************************************)
\* the marker part of selectVessel(mmsi): markers and whether a
\* zoomToShowLayer callback was registered
selectVessel(reg, mks, previousSelection, mmsi) ==
    LET hasVessel == mmsi \in DOMAIN reg
        vessel == reg[mmsi]
        unselectPrev ==
            IF previousSelection # 0 /\ previousSelection \in DOMAIN mks
                /\ previousSelection \in DOMAIN reg
            THEN [mks EXCEPT ![previousSelection].icon =
                    createVesselIcon(
                        OrElse(reg[previousSelection].heading, Num(0)),
                        OrElse(reg[previousSelection].status_category, C(unknownCat)),
                        FALSE)]
            ELSE mks
    IN  IF hasVessel /\ hasTruthyPosition(vessel)
        THEN IF mmsi \in DOMAIN unselectPrev
             THEN [markers |-> [unselectPrev EXCEPT ![mmsi].icon =
                                  createVesselIcon(
                                      OrElse(vessel.heading, Num(0)),
                                      OrElse(vessel.status_category, C(unknownCat)),
                                      TRUE)],
                   zoom |-> {[mmsi |-> mmsi, lat |-> vessel.latitude,
                              lon |-> vessel.longitude]}]
             ELSE [markers |-> unselectPrev, zoom |-> {}]
        ELSE [markers |-> mks, zoom |-> {}]

(***************************************************************************)
(* Records the environment sends.                                          *)
(***************************************************************************)
Rec(id, name, lat, lon, speed, heading, status) ==
    [mmsi |-> id, name |-> name, latitude |-> lat, longitude |-> lon,
     speed |-> speed, heading |-> heading, status_category |-> status,
     vessel_type |-> Undef, destination |-> Undef, nearby_port |-> Undef,
     navigational_status |-> Undef]

\* a moving vessel with a position
Good(id) ==
    Rec(id, C(IF id % 2 = 1 THEN <<"B", "o">> ELSE <<"a">>),
        Num(10), Num(20 + id), Num(12), Num(90), C(Underway))

\* a vessel on the equator at the date line: valid, but latitude 0 is falsy
Zero(id) == Rec(id, C(<<"A", "n">>), Num(0), Num(180), Undef, Num(0), C(Moored))

\* a vessel that reports no position, no name and no status
NoPos(id) == Rec(id, Undef, Undef, Undef, Undef, Undef, Undef)

\* a vessel whose latitude is out of range
Far(id) == Rec(id, C(<<"B", "o">>), Num(91), Num(20), Undef, Undef, Undef)

Templates(id) ==
    IF id = 1 THEN {Good(id), Zero(id), NoPos(id), Far(id)}
    ELSE {Good(id), NoPos(id)}

MainRecords == UNION {Templates(id) : id \in Ids}

Singles(R) == {<<r>> : r \in R}

MainPairs ==
    {<<Good(i), NoPos(j)>> : i \in Ids, j \in Ids \ {1}}
        \cup {<<Good(1), Zero(1)>>}

MainBatches == Singles(MainRecords) \cup MainPairs

SearchValues == {<< >>, <<"B">>}

(***************************************************************************)
(* History of the current burst of inbound updates.  A burst is a maximal  *)
(* run of updates each less than ListWait after the one before; it stays   *)
(* clean while no selection and no search input falls into it, and quiet   *)
(* while the search handler does not run in it.  renders counts the list   *)
(* renders since the burst began.                                          *)
(***************************************************************************)
NoBurst == [clean |-> FALSE, quiet |-> FALSE, updates |-> 0, renders |-> 0]

BurstUpdate(b, since) ==
    IF b.updates > 0 /\ since < ListWait
    THEN [b EXCEPT !.updates = Min(b.updates + 1, MaxEvents + 1)]
    ELSE [clean |-> TRUE, quiet |-> TRUE, updates |-> 1, renders |-> 0]

\* a list render made by the list timer ("list"), by the search handler
\* ("search") or by a selection ("select")
BurstRender(b, by) ==
    IF b.updates = 0 THEN b
    ELSE [b EXCEPT !.renders = b.renders + 1,
                   !.clean = b.clean /\ by # "select",
                   !.quiet = b.quiet /\ by # "search"]

BurstTouch(b) == IF b.updates = 0 THEN b ELSE [b EXCEPT !.clean = FALSE]

\* ids of the records of a batch that pass a test; passes[j] is its outcome
\* on the j-th record
Passing(batch, passes) == {batch[i].mmsi : i \in {j \in 1..Len(batch) : passes[j]}}

(***************************************************************************)
(* Initial state: the state the constructor leaves.                        *)
(***************************************************************************)
\* the window of the update rate, in seconds
StatsWindow == 10

\* the state of the monitor after construction: lastReset is now, nothing is
\* displayed yet
NoStats == [elapsed |-> 0, rate |-> -1, received |-> 0]

Init ==
    /\ vessels = << >>
    /\ vesselOrder = << >>
    /\ markers = << >>
    /\ markerCluster = {}
    /\ selectedVesselMMSI = 0
    /\ updateStats = 0
    /\ listTimers = << >>
    /\ searchTimers = << >>
    /\ searchValue = << >>
    /\ vesselList = [kind |-> "initial", rows |-> << >>, more |-> 0]
    /\ vesselCount = -1
    /\ connectionStatus = "initial"
    /\ mapView = [center |-> [lat |-> Num(-15), lng |-> Num(-60)], zoom |-> InitialZoom]
    /\ zoomCallbacks = {}
    /\ popupTimers = {}
    /\ openPopup = 0
    /\ nEvents = 0
    /\ sinceUpdate = ListWait
    /\ burst = NoBurst
    /\ plotted = {}
    /\ lastRecord = << >>
    /\ raised = FALSE
    /\ clusterIcon = NoClusterIcon
    /\ created = << >>
    /\ statsMonitor = NoStats

(***************************************************************************)
(* Handlers.                                                               *)
(***************************************************************************)
\* a timer that is due runs before anything else happens
NoTimerDue ==
    /\ \A i \in 1..Len(listTimers) : listTimers[i] > 0
    /\ \A i \in 1..Len(searchTimers) : searchTimers[i] > 0
    /\ \A tm \in popupTimers : tm.left > 0

External == nEvents < MaxEvents /\ NoTimerDue

\* history: the record received last for each id, after one more batch
LastReceived(old, batch) ==
    LET ids == {batch[i].mmsi : i \in 1..Len(batch)}
        last(id) == CHOOSE i \in 1..Len(batch) :
                        /\ batch[i].mmsi = id
                        /\ \A j \in (i + 1)..Len(batch) : batch[j].mmsi # id
    IN  [id \in (DOMAIN old) \cup ids |->
            IF id \in ids THEN batch[last(id)] ELSE old[id]]

InboundEffect(r, batch, passed) ==
    /\ vessels' = r.vessels
    /\ vesselOrder' = r.order
    /\ markers' = r.markers
    /\ markerCluster' = r.cluster
    /\ listTimers' = r.listTimers
    /\ raised' = r.threw
    /\ sinceUpdate' = 0
    /\ burst' = BurstUpdate(burst, sinceUpdate)
    /\ plotted' = plotted \cup passed
    /\ lastRecord' = LastReceived(lastRecord, batch)
    /\ created' = created \o r.made
    /\ UNCHANGED <<clusterIcon, selectedVesselMMSI, searchTimers, searchValue, vesselList,
                   vesselCount, connectionStatus, mapView, zoomCallbacks,
                   popupTimers, openPopup>>

\* an inbound event, counted
Inbound(r, batch, passed) ==
    /\ External
    /\ nEvents' = nEvents + 1
    /\ statsMonitor' = [statsMonitor EXCEPT !.received = @ + Len(batch)]
    /\ InboundEffect(r, batch, passed)

\* socket.on('initial_vessels')
InitialVessels(batch) ==
    /\ Inbound(processBatchUpdate(State, batch), batch, Passing(batch, [j \in 1..Len(batch) |-> isPlottable(batch[j])]))
    /\ UNCHANGED updateStats

\* socket.on('vessel_batch_update'): trackUpdateRate runs only if
\* processBatchUpdate returned
VesselBatchUpdate(batch) ==
    /\ Inbound(processBatchUpdate(State, batch), batch, Passing(batch, [j \in 1..Len(batch) |-> isPlottable(batch[j])]))
    /\ updateStats' = IF processBatchUpdate(State, batch).threw THEN updateStats
                      ELSE updateStats + Len(batch)

\* socket.on('vessel_update')
VesselUpdate(vessel) ==
    /\ Inbound(updateVessel(State, vessel), <<vessel>>,
               Passing(<<vessel>>, <<hasTruthyPosition(vessel)>>))
    /\ UNCHANGED updateStats

\* updateConnectionStatus(connected)
\* a connection handler that also drops the pending list render
updateConnectionStatusReset(connected) ==
    /\ External
    /\ connectionStatus' = IF connected THEN "Connected" ELSE "Disconnected"
    /\ listTimers' = << >>
    /\ raised' = FALSE
    /\ nEvents' = nEvents + 1
    /\ UNCHANGED <<clusterIcon, created, statsMonitor, vessels, vesselOrder, markers, markerCluster,
                   selectedVesselMMSI, updateStats, searchTimers,
                   searchValue, vesselList, vesselCount, mapView,
                   zoomCallbacks, popupTimers, openPopup, sinceUpdate, burst,
                   plotted, lastRecord>>

\* updateConnectionStatus(connected): the text and class of #connection-status
updateConnectionStatus(connected) ==
    /\ External
    /\ connectionStatus' = IF connected THEN "Connected" ELSE "Disconnected"
    /\ raised' = FALSE
    /\ nEvents' = nEvents + 1
    /\ UNCHANGED <<clusterIcon, created, statsMonitor, vessels, vesselOrder, markers, markerCluster,
                   selectedVesselMMSI, updateStats, listTimers, searchTimers,
                   searchValue, vesselList, vesselCount, mapView,
                   zoomCallbacks, popupTimers, openPopup, sinceUpdate, burst,
                   plotted, lastRecord>>

\* socket.on('connect') / socket.on('disconnect')
Connect == updateConnectionStatus(TRUE)

Disconnect == updateConnectionStatus(FALSE)

\* socket.on('stats_update'): the stats are written to the console
StatsUpdate ==
    /\ External
    /\ raised' = FALSE
    /\ nEvents' = nEvents + 1
    /\ UNCHANGED <<clusterIcon, created, statsMonitor, vessels, vesselOrder, markers, markerCluster,
                   selectedVesselMMSI, updateStats, listTimers, searchTimers,
                   searchValue, vesselList, vesselCount, connectionStatus,
                   mapView, zoomCallbacks, popupTimers, openPopup, sinceUpdate,
                   burst, plotted, lastRecord>>

\* count / elapsed, to one decimal, in tenths
RateTenths(count, elapsed) == (count * 20 + elapsed) \div (2 * elapsed)

\* the callback of the 1-second interval of startStatsMonitor, a second after
\* the tick before, at a moment when no timer is pending
StatsTick ==
    /\ listTimers = << >> /\ searchTimers = << >> /\ popupTimers = {}
    /\ \E elapsed \in {statsMonitor.elapsed + 1} :
          IF elapsed >= StatsWindow
          THEN /\ updateStats' = 0
               /\ statsMonitor' = [elapsed |-> 0,
                                   rate |-> RateTenths(updateStats, elapsed),
                                   received |-> 0]
          ELSE /\ updateStats' = updateStats
               /\ statsMonitor' = [statsMonitor EXCEPT
                                      !.elapsed = elapsed,
                                      !.rate = RateTenths(updateStats, elapsed)]
    /\ raised' = FALSE
    /\ UNCHANGED <<clusterIcon, created, vessels, vesselOrder, markers,
                   markerCluster, selectedVesselMMSI, listTimers, searchTimers,
                   searchValue, vesselList, vesselCount, connectionStatus,
                   mapView, zoomCallbacks, popupTimers, openPopup, nEvents,
                   sinceUpdate, burst, plotted, lastRecord>>

\* selectVessel(mmsi), called by the click handler of a marker or of a card
Select(mmsi) ==
    \E r \in {selectVessel(vessels, markers, selectedVesselMMSI, mmsi)},
       l \in {updateVesselList(vessels, vesselOrder, searchValue, mmsi,
                                vesselList, vesselCount)} :
        /\ External
        /\ selectedVesselMMSI' = mmsi
        /\ markers' = r.markers
        /\ zoomCallbacks' = zoomCallbacks \cup r.zoom
        /\ vesselList' = l.list
        /\ vesselCount' = l.count
        /\ raised' = l.threw
        /\ burst' = BurstRender(burst, "select")
        /\ nEvents' = nEvents + 1
        /\ UNCHANGED <<clusterIcon, created, statsMonitor, vessels, vesselOrder, markerCluster, updateStats,
                       listTimers, searchTimers, searchValue, connectionStatus,
                       mapView, popupTimers, openPopup, sinceUpdate, plotted, lastRecord>>

\* marker.on('click')
ClickMarker(mmsi) ==
    /\ mmsi \in DOMAIN markers
    /\ markers[mmsi].clicks > 0
    /\ Select(mmsi)

\* card.addEventListener('click') of a displayed card
ClickCard(mmsi) ==
    /\ \E i \in 1..Len(vesselList.rows) : vesselList.rows[i].mmsi = mmsi
    /\ Select(mmsi)

\* the user edits the search box: the debounced 'input' listener is called
SearchInput(q) ==
    /\ External
    /\ q # searchValue
    /\ searchValue' = q
    /\ searchTimers' = debounce(searchTimers, SearchWait)
    /\ raised' = FALSE
    /\ burst' = BurstTouch(burst)
    /\ nEvents' = nEvents + 1
    /\ UNCHANGED <<clusterIcon, created, statsMonitor, vessels, vesselOrder, markers, markerCluster,
                   selectedVesselMMSI, updateStats, listTimers, vesselList,
                   vesselCount, connectionStatus, mapView, zoomCallbacks,
                   popupTimers, openPopup, sinceUpdate, plotted, lastRecord>>

\* `later` of debounce: clearTimeout(timeout) cancels the newest timer of the
\* closure, and the timer that fired is gone
Later(timers, i) ==
    LET kept == {j \in 1..Len(timers) : j # i /\ j # Len(timers)}
        F[j \in 0..Len(timers)] ==
            IF j = 0 THEN << >>
            ELSE IF j \in kept THEN Append(F[j - 1], timers[j]) ELSE F[j - 1]
    IN  F[Len(timers)]

\* the timer of updateListDebounced fires: updateVesselList()
ListTimerFire ==
    \E i \in 1..Len(listTimers) :
        \E l \in {updateVesselList(vessels, vesselOrder, searchValue,
                                    selectedVesselMMSI, vesselList, vesselCount)} :
            /\ listTimers[i] <= 0
            /\ listTimers' = Later(listTimers, i)
            /\ vesselList' = l.list
            /\ vesselCount' = l.count
            /\ raised' = l.threw
            /\ burst' = BurstRender(burst, "list")
            /\ UNCHANGED <<clusterIcon, created, statsMonitor, vessels, vesselOrder, markers, markerCluster,
                           selectedVesselMMSI, updateStats, searchTimers,
                           searchValue, connectionStatus, mapView,
                           zoomCallbacks, popupTimers, openPopup, nEvents,
                           sinceUpdate, plotted, lastRecord>>

\* the timer of the search handler fires: filterVessels() -> updateVesselList()
SearchTimerFire ==
    \E i \in 1..Len(searchTimers) :
        \E l \in {updateVesselList(vessels, vesselOrder, searchValue,
                                    selectedVesselMMSI, vesselList, vesselCount)} :
            /\ searchTimers[i] <= 0
            /\ searchTimers' = Later(searchTimers, i)
            /\ vesselList' = l.list
            /\ vesselCount' = l.count
            /\ raised' = l.threw
            /\ burst' = BurstRender(burst, "search")
            /\ UNCHANGED <<clusterIcon, created, statsMonitor, vessels, vesselOrder, markers, markerCluster,
                           selectedVesselMMSI, updateStats, listTimers,
                           searchValue, connectionStatus, mapView,
                           zoomCallbacks, popupTimers, openPopup, nEvents,
                           sinceUpdate, plotted, lastRecord>>

\* the callback given to zoomToShowLayer runs: setView, then the popup timer
\* a callback that recentres at zoom 10 whatever the zoom is
ZoomCallbackFixedZoom ==
    \E cb \in zoomCallbacks :
        /\ zoomCallbacks' = zoomCallbacks \ {cb}
        /\ raised' = LatLngThrows(cb.lat, cb.lon)
        /\ IF LatLngThrows(cb.lat, cb.lon)
           THEN UNCHANGED <<mapView, popupTimers>>
           ELSE /\ mapView' = [center |-> LatLng(cb.lat, cb.lon),
                               zoom |-> SelectZoom]
                /\ popupTimers' = popupTimers
                                    \cup {[mmsi |-> cb.mmsi, left |-> PopupDelay]}
        /\ UNCHANGED <<clusterIcon, created, statsMonitor, vessels, vesselOrder, markers, markerCluster,
                       selectedVesselMMSI, updateStats, listTimers,
                       searchTimers, searchValue, vesselList, vesselCount,
                       connectionStatus, openPopup, nEvents, sinceUpdate,
                       burst, plotted, lastRecord>>

\* a callback that opens the popup at once, without the timer
ZoomCallbackOpensAtOnce ==
    \E cb \in zoomCallbacks :
        /\ zoomCallbacks' = zoomCallbacks \ {cb}
        /\ raised' = LatLngThrows(cb.lat, cb.lon)
        /\ IF LatLngThrows(cb.lat, cb.lon)
           THEN UNCHANGED <<mapView, openPopup>>
           ELSE /\ mapView' = [center |-> LatLng(cb.lat, cb.lon),
                               zoom |-> Max(mapView.zoom, SelectZoom)]
                /\ openPopup' = cb.mmsi
        /\ UNCHANGED <<clusterIcon, created, statsMonitor, vessels, vesselOrder, markers, markerCluster,
                       selectedVesselMMSI, updateStats, listTimers,
                       searchTimers, searchValue, vesselList, vesselCount,
                       connectionStatus, popupTimers, nEvents, sinceUpdate,
                       burst, plotted, lastRecord>>

ZoomCallback ==
    \E cb \in zoomCallbacks :
        /\ zoomCallbacks' = zoomCallbacks \ {cb}
        /\ raised' = LatLngThrows(cb.lat, cb.lon)
        /\ IF LatLngThrows(cb.lat, cb.lon)
           THEN UNCHANGED <<mapView, popupTimers>>
           ELSE /\ mapView' = [center |-> LatLng(cb.lat, cb.lon),
                               zoom |-> Max(mapView.zoom, SelectZoom)]
                /\ popupTimers' = popupTimers
                                    \cup {[mmsi |-> cb.mmsi, left |-> PopupDelay]}
        /\ UNCHANGED <<clusterIcon, created, statsMonitor, vessels, vesselOrder, markers, markerCluster,
                       selectedVesselMMSI, updateStats, listTimers,
                       searchTimers, searchValue, vesselList, vesselCount,
                       connectionStatus, openPopup, nEvents, sinceUpdate,
                       burst, plotted, lastRecord>>

\* the popup timer fires: marker.openPopup()
PopupTimerFire ==
    \E tm \in popupTimers :
        /\ tm.left <= 0
        /\ popupTimers' = popupTimers \ {tm}
        /\ openPopup' = tm.mmsi
        /\ raised' = FALSE
        /\ UNCHANGED <<clusterIcon, created, statsMonitor, vessels, vesselOrder, markers, markerCluster,
                       selectedVesselMMSI, updateStats, listTimers,
                       searchTimers, searchValue, vesselList, vesselCount,
                       connectionStatus, mapView, zoomCallbacks, nEvents,
                       sinceUpdate, burst, plotted, lastRecord>>

\* time passes, unless a timer is due
Tick(timers) == [i \in 1..Len(timers) |-> timers[i] - TimeStep]

Advance ==
    /\ \/ listTimers # << >> \/ searchTimers # << >> \/ popupTimers # {}
       \/ sinceUpdate < ListWait
    /\ NoTimerDue
    /\ listTimers' = Tick(listTimers)
    /\ searchTimers' = Tick(searchTimers)
    /\ popupTimers' = {[tm EXCEPT !.left = tm.left - TimeStep] : tm \in popupTimers}
    /\ sinceUpdate' = Min(sinceUpdate + TimeStep, ListWait)
    /\ UNCHANGED <<clusterIcon, created, statsMonitor, vessels, vesselOrder, markers, markerCluster,
                   selectedVesselMMSI, updateStats, searchValue, vesselList,
                   vesselCount, connectionStatus, mapView, zoomCallbacks,
                   openPopup, nEvents, burst, plotted, lastRecord, raised>>

Internal ==
    \/ ListTimerFire
    \/ SearchTimerFire
    \/ ZoomCallback
    \/ PopupTimerFire
    \/ Advance

User(I) ==
    \/ \E id \in I : ClickMarker(id)
    \/ \E id \in I : ClickCard(id)
    \/ \E q \in SearchValues : SearchInput(q)

Next ==
    \/ \E b \in MainPairs : InitialVessels(b)
    \/ \E b \in MainBatches : VesselBatchUpdate(b)
    \/ \E v \in MainRecords : VesselUpdate(v)
    \/ Connect
    \/ Disconnect
    \/ StatsUpdate
    \/ User(Ids)
    \/ Internal

Spec == Init /\ [][Next]_vars

(***************************************************************************)
(* Records with every kind of coordinate, for the plottable test.          *)
(***************************************************************************)
LatValues ==
    {Undef, Null, NaN, Inf(1), C(<<"4", "5">>),
     Num(-91), Num(-90), Num(0), Num(90), Num(91)}

LonValues ==
    {Undef, Null, NaN, Inf(-1), C(<<"4", "5">>),
     Num(-181), Num(-180), Num(0), Num(180), Num(181)}

CoordRecords ==
    {Rec(1, C(<<"a">>), lat, Num(180), Undef, Undef, Undef) : lat \in LatValues}
        \cup {Rec(1, C(<<"a">>), Num(-90), lon, Undef, Undef, Undef) : lon \in LonValues}
        \cup {Rec(1, C(<<"a">>), v, v, Undef, Undef, Undef) :
                v \in {Undef, Null, NaN, C(<<"4", "5">>), Num(0)}}

NextCoord ==
    \/ \E r \in CoordRecords : DOMAIN vessels = {} /\ InitialVessels(<<r>>)
    \/ \E r \in CoordRecords : VesselBatchUpdate(<<r>>)
    \/ ListTimerFire
    \/ Advance

SpecCoord == Init /\ [][NextCoord]_vars

(***************************************************************************)
(* Records with malformed optional fields.                                 *)
(***************************************************************************)
\* speed: null
BadSpeed(id) ==
    Rec(id, C(<<"B", "o">>), Num(10), Num(20 + id), Null, Num(90), C(Underway))

\* latitude: null, longitude: null
NullPos(id) == Rec(id, C(<<"a">>), Null, Null, Undef, Undef, Undef)

\* name: 7
BadName(id) == Rec(id, Num(7), Num(10), Num(20 + id), Undef, Undef, Undef)

MalformedRecords ==
    UNION {{Good(id), BadSpeed(id), NullPos(id), BadName(id)} : id \in Ids}

MalformedBatches ==
    Singles(MalformedRecords) \cup {<<BadSpeed(1), Good(2)>>, <<Good(1), NullPos(2)>>}

NextMalformed ==
    \/ \E b \in MalformedBatches : InitialVessels(b)
    \/ \E b \in MalformedBatches : VesselBatchUpdate(b)
    \/ \E v \in MalformedRecords : VesselUpdate(v)
    \/ User(Ids)
    \/ Internal

SpecMalformed == Init /\ [][NextMalformed]_vars

(***************************************************************************)
(* The initial snapshot of a session.                                      *)
(***************************************************************************)
SnapIds == 1..MaxSnapshot

Valid(id) == IF id % 2 = 1 THEN Good(id) ELSE Zero(id)

\* snapshots of n records with distinct ids, each with valid coordinates or none
Snapshots ==
    UNION {{b \in [1..n -> UNION {{Valid(id), NoPos(id)} : id \in 1..n}] :
                \A i \in 1..n : b[i].mmsi = i} : n \in SnapIds}

NextSnapshot ==
    \/ \E b \in Snapshots : DOMAIN vessels = {} /\ InitialVessels(b)
    \/ User(SnapIds)
    \/ Internal

SpecSnapshot == Init /\ [][NextSnapshot]_vars

(***************************************************************************)
(* A large registry, already rendered once, with a search query typed in   *)
(* and the timer of the search handler due.                                *)
(***************************************************************************)
ListName(i) ==
    CASE i % 75 = 7 -> Undef
      [] i % 75 = 9 -> C(<<"a">>)
      [] i % 4 = 0 -> C(<<"B", "o">>)
      [] i % 4 = 1 -> C(<<"b", "o">>)
      [] i % 4 = 2 -> C(<<"A", "o">>)
      [] OTHER -> C(<<"N", "o">>)

ListRec(i) == Rec(i, ListName(i), Undef, Undef, Undef, Undef, Undef)

ListSizes == {3, DisplayCap, DisplayCap + 4, DisplayCap + 4 + MaxExtra}

ListQueries == {<<"o">>, <<"B">>, <<"1", "5">>, <<"w">>}

ListClickIds == {1, 15}

InitList ==
    /\ \E n \in ListSizes :
          /\ vessels = [i \in 1..n |-> ListRec(i)]
          /\ lastRecord = [i \in 1..n |-> ListRec(i)]
          /\ vesselOrder \in {[i \in 1..n |-> i], [i \in 1..n |-> n + 1 - i]}
          /\ vesselCount = n
    /\ vesselList = updateVesselList(vessels, vesselOrder, << >>, 0,
                         [kind |-> "initial", rows |-> << >>, more |-> 0], -1).list
    /\ searchValue \in ListQueries
    /\ searchTimers = <<0>>
    /\ selectedVesselMMSI = 0
    /\ markers = << >>
    /\ markerCluster = {}
    /\ updateStats = 0
    /\ listTimers = << >>
    /\ connectionStatus = "initial"
    /\ mapView = [center |-> [lat |-> Num(-15), lng |-> Num(-60)], zoom |-> InitialZoom]
    /\ zoomCallbacks = {}
    /\ popupTimers = {}
    /\ openPopup = 0
    /\ nEvents = 0
    /\ sinceUpdate = ListWait
    /\ burst = NoBurst
    /\ plotted = {}
    /\ raised = FALSE
    /\ clusterIcon = NoClusterIcon
    /\ created = << >>
    /\ statsMonitor = NoStats

NextList ==
    \/ SearchTimerFire
    \/ \E id \in ListClickIds : ClickCard(id)

SpecList == InitList /\ [][NextList]_vars

(***************************************************************************)
(* A map of many vessels at one place, shown and rendered, whose cluster   *)
(* layer repaints clusters of its markers.                                 *)
(***************************************************************************)
\* the cluster layer calls iconCreateFunction, createClusterIcon, for a
\* cluster of two or more of its markers
ClusterRepaint(members) ==
    /\ members \subseteq markerCluster
    /\ Cardinality(members) >= 2
    /\ clusterIcon' = [members |-> members,
                       icon |-> createClusterIcon(vessels, members)]
    /\ UNCHANGED <<created, statsMonitor, vessels, vesselOrder, markers, markerCluster,
                   selectedVesselMMSI, updateStats, listTimers, searchTimers,
                   searchValue, vesselList, vesselCount, connectionStatus,
                   mapView, zoomCallbacks, popupTimers, openPopup, nEvents,
                   sinceUpdate, burst, plotted, lastRecord, raised>>

ClusterMax == 100 + MaxExtra

\* 7 underway, 5 moored, 2 of a category the client does not know, 2 without
\* category, one of each other category, then underway, anchored and moored
\* in turn
ClusterStatus(i) ==
    CASE i <= 7 -> C(Underway)
      [] i <= 12 -> C(Moored)
      [] i <= 14 -> C(<<"f", "i", "s", "h", "i", "n", "g">>)
      [] i <= 16 -> Undef
      [] i = 17 -> C(<<"a", "n", "c", "h", "o", "r", "e", "d">>)
      [] i = 18 -> C(<<"r", "e", "s", "t", "r", "i", "c", "t", "e", "d">>)
      [] i = 19 -> C(<<"s", "p", "e", "c", "i", "a", "l">>)
      [] i = 20 -> C(unknownCat)
      [] i % 3 = 0 -> C(Underway)
      [] i % 3 = 1 -> C(<<"a", "n", "c", "h", "o", "r", "e", "d">>)
      [] OTHER -> C(Moored)

ClusterRec(i) ==
    Rec(i, C(<<"B", "o">>), Num(10), Num(20), Num(0), Num(90), ClusterStatus(i))

\* the counts at and beside the tier boundaries
ClusterCounts == {2, 9, 10, 11, 12, 49, 50, 51, 99, 100, ClusterMax}

\* the clusters the layer repaints: the first c markers for each of these
\* counts, and runs of markers with tied and with uncounted categories
ClusterMembers ==
    {1..c : c \in ClusterCounts} \cup {3..12, 6..9, 12..14, 13..14, 13..16, 15..17}

\* records that change the category of a member: vessel 1 moors, vessel 8
\* stops reporting
ClusterUpdates ==
    {Rec(1, C(<<"B", "o">>), Num(10), Num(20), Num(0), Num(90), C(Moored)),
     NoPos(8)}

\* the state after the snapshot of ClusterMax vessels, every one plottable,
\* and the list render
InitCluster ==
    /\ vessels = [i \in 1..ClusterMax |-> ClusterRec(i)]
    /\ vesselOrder = [i \in 1..ClusterMax |-> i]
    /\ markers = [i \in 1..ClusterMax |->
                    updateMarker([markers |-> << >>, cluster |-> {},
                                  made |-> << >>, threw |-> FALSE],
                                 ClusterRec(i), 0).markers[i]]
    /\ markerCluster = 1..ClusterMax
    /\ lastRecord = [i \in 1..ClusterMax |-> ClusterRec(i)]
    /\ plotted = 1..ClusterMax
    /\ vesselList = updateVesselList([i \in 1..ClusterMax |-> ClusterRec(i)],
                                     [i \in 1..ClusterMax |-> i], << >>, 0,
                                     [kind |-> "initial", rows |-> << >>, more |-> 0],
                                     -1).list
    /\ vesselCount = ClusterMax
    /\ selectedVesselMMSI = 0
    /\ updateStats = 0
    /\ listTimers = << >>
    /\ searchTimers = << >>
    /\ searchValue = << >>
    /\ connectionStatus = "Connected"
    /\ mapView = [center |-> [lat |-> Num(-15), lng |-> Num(-60)], zoom |-> InitialZoom]
    /\ zoomCallbacks = {}
    /\ popupTimers = {}
    /\ openPopup = 0
    /\ nEvents = 0
    /\ sinceUpdate = ListWait
    /\ burst = NoBurst
    /\ raised = FALSE
    /\ clusterIcon = NoClusterIcon
    /\ created = [i \in 1..ClusterMax |-> i]
    /\ statsMonitor = NoStats

NextCluster ==
    \/ \E members \in ClusterMembers : ClusterRepaint(members)
    \/ \E r \in ClusterUpdates : VesselBatchUpdate(<<r>>)

SpecCluster == InitCluster /\ [][NextCluster]_vars

(***************************************************************************)
(* A registry whose records differ in the fields the search looks at, and  *)
(* a user who types queries into the search box.                           *)
(***************************************************************************)
SearchRec(id, name, destination, type, port) ==
    [Rec(id, name, Undef, Undef, Undef, Undef, Undef)
        EXCEPT !.destination = destination, !.vessel_type = type,
               !.nearby_port = port]

SearchRecords ==
    <<SearchRec(1, C(<<"B", "o">>), C(<<"R", "I", "O">>), Undef, Undef),
      SearchRec(2, Undef, Undef, C(<<"T", "u", "g">>), C(<<"R", "i", "o">>)),
      SearchRec(12, C(<<"t", "u", "g">>), Undef, Undef, C(<<"B", "a">>)),
      SearchRec(20 + MaxExtra, C(<<"A", "B">>), C(<<"o">>), C(<<"r", "o">>), Undef)>>

SearchQueries ==
    {<< >>, <<"o">>, <<"O">>, <<"r", "i", "o">>, <<"R", "I", "O">>, <<"I", "o">>,
     <<"T", "U">>, <<"u", "g">>, <<"1">>, <<"1", "2">>, <<"b">>, <<"x">>,
     <<"o", "r">>}

InitSearch ==
    /\ vessels = [id \in {SearchRecords[i].mmsi : i \in 1..Len(SearchRecords)} |->
                    The({SearchRecords[i] : i \in {j \in 1..Len(SearchRecords) :
                                                      SearchRecords[j].mmsi = id}})]
    /\ lastRecord = vessels
    /\ vesselOrder = [i \in 1..Len(SearchRecords) |-> SearchRecords[i].mmsi]
    /\ vesselCount = Len(SearchRecords)
    /\ vesselList = updateVesselList(vessels, vesselOrder, << >>, 0,
                         [kind |-> "initial", rows |-> << >>, more |-> 0], -1).list
    /\ searchValue = << >>
    /\ searchTimers = << >>
    /\ selectedVesselMMSI = 0
    /\ markers = << >>
    /\ markerCluster = {}
    /\ updateStats = 0
    /\ listTimers = << >>
    /\ connectionStatus = "Connected"
    /\ mapView = [center |-> [lat |-> Num(-15), lng |-> Num(-60)], zoom |-> InitialZoom]
    /\ zoomCallbacks = {}
    /\ popupTimers = {}
    /\ openPopup = 0
    /\ nEvents = 0
    /\ sinceUpdate = ListWait
    /\ burst = NoBurst
    /\ plotted = {}
    /\ raised = FALSE
    /\ clusterIcon = NoClusterIcon
    /\ created = << >>
    /\ statsMonitor = NoStats

NextSearch ==
    \/ \E q \in SearchQueries : SearchInput(q)
    \/ SearchTimerFire
    \/ Advance

SpecSearch == InitSearch /\ [][NextSearch]_vars

(***************************************************************************)
(* An unending stream of single updates, with timers that fire when they   *)
(* are due and time that passes.                                           *)
(***************************************************************************)
StreamRecords == {Good(1), Zero(1), Far(1), Good(2), NoPos(2)}

\* socket.on('vessel_update'), any number of times
StreamUpdate(vessel) ==
    /\ NoTimerDue
    /\ InboundEffect(updateVessel(State, vessel), <<vessel>>,
                     Passing(<<vessel>>, <<hasTruthyPosition(vessel)>>))
    /\ UNCHANGED <<updateStats, nEvents, statsMonitor>>

NextStream ==
    \/ \E v \in StreamRecords : StreamUpdate(v)
    \/ ListTimerFire
    \/ Advance

SpecStream ==
    Init /\ [][NextStream]_vars /\ WF_vars(ListTimerFire) /\ WF_vars(Advance)

(***************************************************************************)
(* A map whose zoom changes, by the zoom control or by the cluster layer   *)
(* zooming in to show a marker, around selections.                         *)
(***************************************************************************)
\* the initial zoom, the zooms around the selection zoom, and the maxZoom of
\* the tile layer
ZoomLevels == {InitialZoom, SelectZoom - 1, SelectZoom, SelectZoom + 1, 19}

\* the zoom of the map changes
MapZoom(z) ==
    /\ External
    /\ z # mapView.zoom
    /\ mapView' = [mapView EXCEPT !.zoom = z]
    /\ raised' = FALSE
    /\ nEvents' = nEvents + 1
    /\ UNCHANGED <<clusterIcon, created, statsMonitor, vessels, vesselOrder, markers, markerCluster,
                   selectedVesselMMSI, updateStats, listTimers, searchTimers,
                   searchValue, vesselList, vesselCount, connectionStatus,
                   zoomCallbacks, popupTimers, openPopup, sinceUpdate, burst,
                   plotted, lastRecord>>

NextZoom ==
    \/ DOMAIN vessels = {} /\ InitialVessels(<<Good(1), Good(2)>>)
    \/ \E z \in ZoomLevels : MapZoom(z)
    \/ \E id \in Ids : ClickMarker(id)
    \/ ListTimerFire
    \/ ZoomCallback
    \/ PopupTimerFire
    \/ Advance

SpecZoom == Init /\ [][NextZoom]_vars

(***************************************************************************)
(* The update-rate monitor: records arrive by the three channels while the *)
(* 1-second interval ticks.                                                *)
(***************************************************************************)
StatsBatches == {<<Good(1)>>, <<Good(1), Zero(1)>>, <<Good(2), NoPos(2)>>}

NextStats ==
    \/ DOMAIN vessels = {} /\ InitialVessels(<<Good(1), NoPos(2)>>)
    \/ \E b \in StatsBatches : VesselBatchUpdate(b)
    \/ VesselUpdate(Good(2))
    \/ StatsTick
    \/ ListTimerFire
    \/ Advance

SpecStats == Init /\ [][NextStats]_vars

(***************************************************************************)
(* Properties.                                                             *)
(***************************************************************************)
\* a coordinate that is present, of numeric type, not NaN, finite and
\* within [-lim, lim]
ValidCoord(v, lim) ==
    /\ v.t \notin {"undefined", "null"}
    /\ v.t \in {"number", "NaN", "Infinity"}
    /\ v.t # "NaN"
    /\ v.t # "Infinity"
    /\ v.n >= 0 - lim /\ v.n <= lim

\* a record with a valid plottable position
ValidPosition(r) == ValidCoord(r.latitude, 90) /\ ValidCoord(r.longitude, 180)

\* an icon drawn in the selected style
IsSelectedIcon(icon) == icon.size = 24 /\ icon.strokeWidth = 3

C2_SelectUnselectsPrevious ==
    [][\A a \in Ids, b \in Ids :
          (a # b /\ selectedVesselMMSI = a /\ a \in DOMAIN markers /\ Select(b))
              => /\ selectedVesselMMSI' = b
                 /\ ~IsSelectedIcon(markers'[a].icon)
                 /\ \A i \in 1..Len(vesselList'.rows) :
                        vesselList'.rows[i].selected
                            <=> vesselList'.rows[i].mmsi = b]_vars

\* the list renders of the current burst: none until the debounce delay has
\* passed since its last update, exactly one after that, and the list then
\* shows the registry as it is
BurstRenderedOnce ==
    /\ sinceUpdate < ListWait => burst.renders = 0
    /\ (sinceUpdate >= ListWait /\ \A i \in 1..Len(listTimers) : listTimers[i] > 0)
          => /\ burst.renders = 1
             /\ vesselList = updateVesselList(vessels, vesselOrder, searchValue,
                                 selectedVesselMMSI, vesselList, vesselCount).list
             /\ vesselList.kind # "initial"

C4_RegistryHoldsLastRecord ==
    /\ vessels = lastRecord
    /\ Len(vesselOrder) = Cardinality(DOMAIN vessels)
    /\ {vesselOrder[i] : i \in 1..Len(vesselOrder)} = DOMAIN vessels

C4_Witness_Replaced ==
    \E id \in DOMAIN markers : vessels[id] = NoPos(id)

\* C6: from every state and for every record r, the legacy vessel_update(r)
\* leaves the registry, the markers and the list timer as a batch [r] does.
C6_LegacyEqualsBatch ==
    \A r \in MainRecords :
        LET a == updateVessel(State, r)
            b == processBatchUpdate(State, <<r>>)
        IN  /\ a.vessels = b.vessels
            /\ a.markers = b.markers
            /\ a.cluster = b.cluster
            /\ a.listTimers = b.listTimers

\* C7: when the record an id has after an event is not plottable, a marker the
\* id had before the event is still there and at the same position; no event
\* removes a marker.
C7_MarkerStaysAtLastPlottable ==
    [][\A id \in DOMAIN markers :
          /\ id \in DOMAIN markers'
          /\ ~ValidPosition(vessels'[id]) => markers'[id].latlng = markers[id].latlng]_vars

\* C5: a record of a batch or snapshot is admitted to marker reconciliation,
\* and so gets a marker when its id has none, if and only if its latitude and
\* longitude are both present, numeric, not NaN, finite and within range.
\* Every inbound event of SpecCoord carries one record of CoordRecords, which
\* the history lastRecord holds after the step.
C5_PlottableIffValid ==
    [][\A id \in Ids :
          (id \notin DOMAIN markers /\ nEvents' = nEvents + 1
              /\ id \in DOMAIN lastRecord' /\ lastRecord'[id] \in CoordRecords)
              => (id \in DOMAIN markers' <=> ValidPosition(lastRecord'[id]))]_vars

C5_Witness_Boundary ==
    /\ 1 \in DOMAIN markers
    /\ vessels[1].latitude = Num(90) /\ vessels[1].longitude = Num(180)
    /\ markers[1].latlng = [lat |-> Num(90), lng |-> Num(180)]

\* C8: no handler raises on a record with malformed optional fields, and the
\* list render stays scheduled after every inbound update.
C8_MalformedFieldsDegradeGracefully ==
    /\ raised = FALSE
    /\ sinceUpdate = 0 => listTimers # << >>

SortName(r) ==
    IF r.name.t = "string" /\ r.name.s # << >> THEN ToLowerCase(r.name.s)
    ELSE <<"u", "n", "k", "n", "o", "w", "n">>

\* the list shows only registry records that match the query, in
\* case-insensitive name order, the first min(150, M) of the M matching
\* records, and the overflow indicator "Showing 150 of M" exactly when M
\* exceeds 150
ListShowsSearch ==
    \A rows \in {vesselList.rows} :
    \A shown \in {{rows[i].mmsi : i \in 1..Len(rows)}} :
    \A matching \in {{id \in DOMAIN vessels :
                        matchesSearch(vessels[id], searchValue)}} :
        /\ shown \subseteq matching
        /\ Cardinality(shown) = Len(rows)
        /\ Len(rows) = Min(DisplayCap, Cardinality(matching))
        /\ \A i \in 1..(Len(rows) - 1) :
              ~LocaleLess(SortName(vessels[rows[i + 1].mmsi]),
                          SortName(vessels[rows[i].mmsi]))
        /\ \A id \in matching \ shown :
              ~LocaleLess(SortName(vessels[id]),
                          SortName(vessels[rows[Len(rows)].mmsi]))
        /\ vesselList.more # 0 <=> Cardinality(matching) > DisplayCap
        /\ vesselList.more # 0 => vesselList.more = Cardinality(matching)

\* C10: every list render with a non-empty search query (by the search
\* handler or by a selection) leaves a list that shows only the matching
\* records, sorted by name without regard to case, capped at 150, with the
\* overflow indicator exactly when more than 150 records match.
C10_SearchListSortedCapped ==
    [][(searchValue # << >>
            /\ (SearchTimerFire \/ \E id \in ListClickIds : ClickCard(id)))
          => ListShowsSearch']_vars

C10_Witness_Overflow ==
    /\ searchValue # << >>
    /\ searchTimers = << >>
    /\ vesselList.more > DisplayCap
    /\ vesselList.more < Cardinality(DOMAIN vessels)
    /\ Len(vesselList.rows) = DisplayCap

\* batches whose order is permuted: pairs of the main catalogue, a pair of
\* two plottable records and a batch of three with one id twice
PermBatches ==
    MainPairs \cup {<<Good(1), Good(2)>>, <<Good(2), Zero(1), NoPos(1)>>}

\* the orders of the records of a batch
Orders(batch) ==
    {[i \in 1..Len(batch) |-> batch[f[i]]] : f \in Permutations(1..Len(batch))}

DistinctIds(batch) ==
    \A i \in 1..Len(batch), j \in 1..Len(batch) :
        i # j => batch[i].mmsi # batch[j].mmsi

\* processBatchUpdate leaves the same registry and the same markers, with the
\* same position, icon and popup, for both orders
SameOutcome(a, b) ==
    \A x \in {processBatchUpdate(State, a)}, y \in {processBatchUpdate(State, b)} :
        /\ x.vessels = y.vessels
        /\ x.markers = y.markers
        /\ x.cluster = y.cluster

C12_NonPlottableLeavesMarkers ==
    [][\A r \in MainRecords :
          (~ValidPosition(r)
              /\ (VesselUpdate(r) \/ VesselBatchUpdate(<<r>>) \/ InitialVessels(<<r>>)))
              => (vessels'[r.mmsi] = r /\ markers' = markers)]_vars

\* C13: selectVessel(b) for an id whose latest record has no valid position,
\* or that has no record, makes b the selection and renders the list with b's
\* row, if shown, the only one marked selected, and asks for no recentring,
\* no zoom and no popup.
C13_SelectWithoutPositionLeavesMap ==
    [][\A b \in Ids :
          ((b \notin DOMAIN vessels \/ ~ValidPosition(vessels[b])) /\ Select(b))
              => /\ selectedVesselMMSI' = b
                 /\ \A i \in 1..Len(vesselList'.rows) :
                        vesselList'.rows[i].selected
                            <=> vesselList'.rows[i].mmsi = b
                 /\ zoomCallbacks' = zoomCallbacks
                 /\ mapView' = mapView
                 /\ popupTimers' = popupTimers
                 /\ openPopup' = openPopup]_vars

\* the number of members of a cluster in category k: a member whose record
\* has no category, or one that is not among the six, is in unknown
MemberCount(members, k) ==
    Cardinality({m \in members :
        IF Truthy(vessels[m].status_category)
               /\ StatusKey(vessels[m].status_category) # "none"
        THEN StatusKey(vessels[m].status_category) = k
        ELSE k = "unknown"})

\* position i of the fixed order has a maximal count, and no earlier position
\* has the same count
FirstOfMaximal(members, i) ==
    /\ \A j \in 1..Len(StatusOrder) :
          MemberCount(members, StatusOrder[j]) <= MemberCount(members, StatusOrder[i])
    /\ \A j \in 1..(i - 1) :
          MemberCount(members, StatusOrder[j]) < MemberCount(members, StatusOrder[i])

\* a step in which the cluster layer obtained an icon for a cluster
Repainted == clusterIcon' # clusterIcon

\* C14: for every cluster the dominant status of createClusterIcon
\* is a category with the maximal member count, and among categories that tie
\* for the maximum it is the first in the order underway, anchored, moored,
\* restricted, special, unknown.
C14_DominantFirstOfMaximal ==
    [][Repainted =>
          \E i \in 1..Len(StatusOrder) :
              /\ clusterIcon'.icon.dominantStatus = StatusOrder[i]
              /\ FirstOfMaximal(clusterIcon'.members, i)]_vars

\* the tier the claim gives a count
TierOf(c) ==
    IF c < 10 THEN "marker-cluster-small"
    ELSE IF 10 <= c /\ c < 50 THEN "marker-cluster-medium"
    ELSE IF 50 <= c /\ c < 100 THEN "marker-cluster-large"
    ELSE "marker-cluster-mega"

\* C15, as claimed: the icon of a cluster of c members has tier small when
\* c < 10, medium when 10 <= c < 50, large when 50 <= c < 100 and mega when
\* c >= 100; its label is the exact count when c < 100 and the capped label
\* "100+" when c >= 100.
C15_TierAndCappedLabel ==
    [][Repainted =>
          \E c \in {Cardinality(clusterIcon'.members)} :
              /\ clusterIcon'.icon.className = TierOf(c)
              /\ clusterIcon'.icon.label =
                    IF c < 100 THEN IntToChars(c) ELSE <<"1", "0", "0", "+">>]_vars

\* C15, amended: the tiers are as claimed, and the label is the exact count
\* when c < 100 and the exact count followed by "+" when c >= 100.
C15_TierAndPlusLabel ==
    [][Repainted =>
          \E c \in {Cardinality(clusterIcon'.members)} :
              /\ clusterIcon'.icon.className = TierOf(c)
              /\ clusterIcon'.icon.label =
                    IF c < 100 THEN IntToChars(c) ELSE IntToChars(c) \o <<"+">>]_vars

\* a cluster of exactly 100 members was painted mega with the label "100+"
C15_Witness_Hundred ==
    /\ Cardinality(clusterIcon.members) = 100
    /\ clusterIcon.icon.className = "marker-cluster-mega"
    /\ clusterIcon.icon.label = <<"1", "0", "0", "+">>

\* the text of a field the search looks at: a missing field is the empty
\* string
FieldText(f) == IF f.t = "string" THEN f.s ELSE << >>

\* a capital letter and its small letter
CasePairs ==
    {<<"A", "a">>, <<"B", "b">>, <<"C", "c">>, <<"D", "d">>,
     <<"E", "e">>, <<"F", "f">>, <<"G", "g">>, <<"H", "h">>,
     <<"I", "i">>, <<"J", "j">>, <<"K", "k">>, <<"L", "l">>,
     <<"M", "m">>, <<"N", "n">>, <<"O", "o">>, <<"P", "p">>,
     <<"Q", "q">>, <<"R", "r">>, <<"S", "s">>, <<"T", "t">>,
     <<"U", "u">>, <<"V", "v">>, <<"W", "w">>, <<"X", "x">>,
     <<"Y", "y">>, <<"Z", "z">>}

SameLetter(a, b) == a = b \/ <<a, b>> \in CasePairs \/ <<b, a>> \in CasePairs

\* q occurs in f at some offset, letters compared without regard to case
ContainsFold(f, q) ==
    \E i \in 0..(Len(f) - Len(q)) :
        \A k \in 1..Len(q) : SameLetter(f[i + k], q[k])

\* the query occurs in the name, the id, the destination, the vessel type or
\* the nearby port of the record
SearchMatch(r, q) ==
    \/ ContainsFold(FieldText(r.name), q)
    \/ ContainsFold(IntToChars(r.mmsi), q)
    \/ ContainsFold(FieldText(r.destination), q)
    \/ ContainsFold(FieldText(r.vessel_type), q)
    \/ ContainsFold(FieldText(r.nearby_port), q)

\* C16: matchesSearch(record, query) is true exactly when the query occurs,
\* without regard to the letter case of either, in the name, the stringified
\* id, the destination, the vessel type or the nearby port of the record, a
\* missing field counting as the empty string; the empty query matches every
\* record. So the list the search handler renders shows exactly those
\* records.
C16_SearchMatchesFields ==
    [][Len(searchTimers') < Len(searchTimers) =>
          /\ \A id \in DOMAIN vessels :
                /\ matchesSearch(vessels[id], searchValue)
                      <=> SearchMatch(vessels[id], searchValue)
                /\ matchesSearch(vessels[id], << >>)
          /\ {vesselList'.rows[i].mmsi : i \in 1..Len(vesselList'.rows)}
                = {id \in DOMAIN vessels : SearchMatch(vessels[id], searchValue)}]_vars

\* the query "Io" found RIO and Rio, and only them
C16_Witness_MixedCase ==
    /\ searchValue = <<"I", "o">>
    /\ searchTimers = << >>
    /\ {vesselList.rows[i].mmsi : i \in 1..Len(vesselList.rows)} = {1, 2}

\* C17: the connect, disconnect and stats events leave the registry, the
\* marker set, every marker's position and icon, the selection and the
\* pending debounce timers unchanged, and connect and disconnect change
\* nothing the user sees but the connection status indicator.
C17_LifecycleLeavesState ==
    [][/\ (Connect \/ Disconnect \/ StatsUpdate) =>
            /\ vessels' = vessels
            /\ vesselOrder' = vesselOrder
            /\ DOMAIN markers' = DOMAIN markers
            /\ markerCluster' = markerCluster
            /\ \A id \in DOMAIN markers :
                  /\ markers'[id].latlng = markers[id].latlng
                  /\ markers'[id].icon = markers[id].icon
            /\ selectedVesselMMSI' = selectedVesselMMSI
            /\ listTimers' = listTimers
            /\ searchTimers' = searchTimers
       /\ (Connect \/ Disconnect) =>
            /\ markers' = markers
            /\ vesselList' = vesselList
            /\ vesselCount' = vesselCount
            /\ searchValue' = searchValue
            /\ mapView' = mapView
            /\ zoomCallbacks' = zoomCallbacks
            /\ popupTimers' = popupTimers
            /\ openPopup' = openPopup
            /\ updateStats' = updateStats
       /\ connectionStatus' # connectionStatus =>
            /\ connectionStatus' \in {"Connected", "Disconnected"}
            /\ vessels' = vessels
            /\ markers' = markers
            /\ selectedVesselMMSI' = selectedVesselMMSI
            /\ listTimers' = listTimers
            /\ searchTimers' = searchTimers]_vars

\* the connection was lost while a vessel was selected on the map and the
\* list render of its snapshot was pending
C17_Witness_DisconnectedWhilePending ==
    /\ connectionStatus = "Disconnected"
    /\ listTimers # << >>
    /\ selectedVesselMMSI \in DOMAIN markers
    /\ IsSelectedIcon(markers[selectedVesselMMSI].icon)

\* the last record of the batch for the id that has a valid position
LastValid(batch, id) ==
    batch[CHOOSE i \in 1..Len(batch) :
            /\ batch[i].mmsi = id /\ ValidPosition(batch[i])
            /\ \A j \in (i + 1)..Len(batch) :
                  ~(batch[j].mmsi = id /\ ValidPosition(batch[j]))]

\* the marker of the id is the one it was, and shows record r
MarkerShows(id, r) ==
    /\ id \in DOMAIN markers'
    /\ created' = created
    /\ markers'[id].clicks = markers[id].clicks
    /\ markers'[id].latlng = LatLng(r.latitude, r.longitude)
    /\ markers'[id].icon =
          createVesselIcon(OrElse(r.heading, Num(0)),
                           OrElse(r.status_category, C(unknownCat)),
                           selectedVesselMMSI = id)
    /\ IsSelectedIcon(markers'[id].icon) <=> selectedVesselMMSI = id
    /\ markers'[id].popup = createPopupContent(r)

\* C18: when a plottable record arrives, by the snapshot, a batch or the
\* legacy event, for an id that already has a marker, afterwards the same
\* marker is at the record's position, its icon is createVesselIcon(heading
\* or 0, status category or unknown, id is selected) and its popup is built
\* from the record.
C18_UpdateRepositionsMarker ==
    [][/\ \A b \in MainBatches :
            (VesselBatchUpdate(b) \/ InitialVessels(b)) =>
                \A id \in DOMAIN markers :
                    (\E i \in 1..Len(b) : b[i].mmsi = id /\ ValidPosition(b[i]))
                        => MarkerShows(id, LastValid(b, id))
       /\ \A v \in MainRecords :
            (VesselUpdate(v) /\ ValidPosition(v) /\ v.mmsi \in DOMAIN markers)
                => MarkerShows(v.mmsi, v)]_vars

\* the number of markers made for the id
Created(id) == Cardinality({i \in 1..Len(created) : created[i] = id})

\* C19: each id moves from NoMarker to HasMarker at most once: at most one
\* marker is ever made for an id, it is in the cluster layer from then on
\* with exactly one click handler, and the marker map holds it under its id.
C19_OneMarkerPerId ==
    [][/\ \A id \in DOMAIN vessels' \cup DOMAIN markers' :
            /\ Created(id)' <= 1
            /\ id \in DOMAIN markers' <=> Created(id)' = 1
            /\ id \in markerCluster' <=> id \in DOMAIN markers'
            /\ id \in DOMAIN markers' =>
                  /\ markers'[id].mmsi = id
                  /\ markers'[id].clicks = 1
       /\ DOMAIN markers \subseteq DOMAIN markers'
       /\ markerCluster \subseteq markerCluster'
       /\ SubSeq(created', 1, Len(created)) = created]_vars

\* two plottable records for vessel 1 arrived and one marker was made, which
\* shows the second
C19_Witness_MadeOnceUpdated ==
    /\ created = <<1>>
    /\ nEvents = 1
    /\ lastRecord[1] = Zero(1)
    /\ markers[1].latlng = LatLng(Num(0), Num(180))

\* C20: for every id that has a marker, after selectVessel(id) the marker's
\* icon is the selected icon, also when the latest record of the id is not
\* plottable (a stale marker) and when its latitude or longitude is 0.
C20_SelectedMarkerHighlighted ==
    [][\A b \in Ids :
          (b \in DOMAIN markers /\ Select(b)) =>
              /\ b \in DOMAIN markers'
              /\ IsSelectedIcon(markers'[b].icon)]_vars

C22_DebounceLastCallWins ==
    [][/\ Len(listTimers') <= 1 /\ Len(searchTimers') <= 1
       /\ (\/ \E b \in MainBatches : VesselBatchUpdate(b) \/ InitialVessels(b)
           \/ \E v \in MainRecords : VesselUpdate(v)) =>
            /\ listTimers' = <<ListWait>>
            /\ searchTimers' = searchTimers
       /\ searchValue' # searchValue =>
            /\ searchTimers' = <<SearchWait>>
            /\ listTimers' = listTimers
       /\ listTimers' # listTimers =>
            \/ listTimers' = <<ListWait>> /\ sinceUpdate' = 0
            \/ /\ listTimers # << >>
               /\ listTimers' = [i \in 1..Len(listTimers) |-> listTimers[i] - TimeStep]
               /\ nEvents' = nEvents
            \/ /\ listTimers # << >>
               /\ listTimers' = << >>
               /\ listTimers[1] <= 0
               /\ sinceUpdate >= ListWait
               /\ searchTimers' = searchTimers
       /\ searchTimers' # searchTimers =>
            \/ searchTimers' = <<SearchWait>> /\ searchValue' # searchValue
            \/ /\ searchTimers # << >>
               /\ searchTimers' = [i \in 1..Len(searchTimers) |-> searchTimers[i] - TimeStep]
               /\ nEvents' = nEvents
            \/ /\ searchTimers # << >>
               /\ searchTimers' = << >>
               /\ searchTimers[1] <= 0
               /\ listTimers' = listTimers]_vars

\* a second update restarted the list timer at its full delay while the
\* search timer, started before, kept counting down
C22_Witness_RestartedBesideSearch ==
    /\ listTimers = <<ListWait>>
    /\ searchTimers = <<SearchWait - TimeStep>>
    /\ burst.updates = 2
    /\ sinceUpdate = 0

\* the list shows what a render of the registry would show now
ListCurrent ==
    vesselList = updateVesselList(vessels, vesselOrder, searchValue,
                                  selectedVesselMMSI, vesselList, vesselCount).list

\* C23: every inbound update is eventually followed by a list render that
\* reflects the registry with that update, timers firing when due, also in a
\* stream in which the updates keep arriving less than the debounce delay
\* apart and the user does nothing.
C23_UpdateEventuallyRendered ==
    (listTimers # << >>) ~> (listTimers = << >> /\ ListCurrent)

\* C24: after a batch has been delivered, delivering the same batch again
\* leaves the registry, the marker set, the layers of the cluster layer and
\* every marker's position, icon and popup as they are, and makes no marker.
C24_DuplicateBatchChangesNothing ==
    [][\A b \in MainBatches :
          (VesselBatchUpdate(b) \/ InitialVessels(b)) =>
              \E again \in {processBatchUpdate(State', b)} :
                  /\ again.vessels = vessels'
                  /\ again.order = vesselOrder'
                  /\ again.markers = markers'
                  /\ again.cluster = markerCluster'
                  /\ again.made = << >>]_vars

\* the batch of two records of vessel 1 was delivered twice: one marker was
\* made, and it shows the last record
C24_Witness_DeliveredTwice ==
    /\ nEvents = 2
    /\ updateStats = 4
    /\ DOMAIN vessels = {1}
    /\ vessels[1] = Zero(1)
    /\ created = <<1>>
    /\ markers[1].latlng = LatLng(Num(0), Num(180))

\* the sum of the six counts
CountSum(counts) ==
    LET Sum[i \in 0..Len(StatusOrder)] ==
            IF i = 0 THEN 0 ELSE Sum[i - 1] + counts[StatusOrder[i]]
    IN  Sum[Len(StatusOrder)]

\* C25: in the counts createClusterIcon makes for a cluster, a member whose
\* status category is missing or is not one of the six is counted as
\* unknown, so the six counts sum to the number of members that have a
\* registry entry.
C25_CountsCoverMembers ==
    [][Repainted =>
          /\ \A i \in 1..Len(StatusOrder) :
                clusterIcon'.icon.statusCounts[StatusOrder[i]]
                    = MemberCount(clusterIcon'.members, StatusOrder[i])
          /\ CountSum(clusterIcon'.icon.statusCounts)
                = Cardinality(clusterIcon'.members \cap DOMAIN vessels)]_vars

\* C26: when the completion callback of a selection recentres the map, the
\* zoom afterwards is the greater of the zoom at that moment and 10: the map
\* is not zoomed out and ends at zoom 10 or more.
C26_RecentreNeverZoomsOut ==
    [][Cardinality(zoomCallbacks') < Cardinality(zoomCallbacks) =>
          /\ mapView'.zoom = IF mapView.zoom >= 10 THEN mapView.zoom ELSE 10
          /\ mapView'.zoom >= mapView.zoom
          /\ mapView'.zoom >= 10
          /\ \E id \in Ids : mapView'.center = markers[id].latlng]_vars

\* the map was at zoom 19 and is recentred on vessel 1 at zoom 19
C26_Witness_StaysZoomedIn ==
    /\ mapView = [center |-> LatLng(Num(10), Num(21)), zoom |-> 19]
    /\ selectedVesselMMSI = 1
    /\ zoomCallbacks = {}
    /\ popupTimers # {}

\* C27: between two resets the update-rate counter equals the number of
\* records received since the last reset by the snapshot, the batch update
\* and the legacy update together; a tick of the 1-second interval resets
\* the counter to 0 and restarts the window exactly when 10 seconds or more
\* have passed since the last reset; and the counter is never negative.
C27_CounterCountsEveryRecord ==
    [][/\ updateStats' = statsMonitor'.received
       /\ updateStats' >= 0
       /\ statsMonitor'.elapsed # statsMonitor.elapsed =>
            IF statsMonitor.elapsed + 1 >= StatsWindow
            THEN updateStats' = 0 /\ statsMonitor'.elapsed = 0
            ELSE /\ updateStats' = updateStats
                 /\ statsMonitor'.elapsed = statsMonitor.elapsed + 1]_vars

\* C28: in every state between events a marker's icon is in the selected
\* style if and only if its vessel id is the current selection, so at most
\* one marker shows the selected icon.
C28_SelectedIconIffSelection ==
    /\ \A id \in DOMAIN markers :
          IsSelectedIcon(markers[id].icon) <=> id = selectedVesselMMSI
    /\ Cardinality({id \in DOMAIN markers : IsSelectedIcon(markers[id].icon)}) <= 1

\* C29: in every state every marker's position is a pair of finite numbers
\* with latitude in [-90, 90] and longitude in [-180, 180], whichever channel
\* delivered the record that positioned it.
C29_MarkerPositionsValid ==
    \A id \in DOMAIN markers :
        /\ ValidCoord(markers[id].latlng.lat, 90)
        /\ ValidCoord(markers[id].latlng.lng, 180)

\* C30: whenever a deferred callback of a selection recentres the map or
\* opens a popup, the vessel it does so for is the selection at that moment:
\* the pending recentring and popup of a vessel do not take effect once
\* another vessel has been selected.
C30_DeferredActOnSelection ==
    [][/\ \A cb \in zoomCallbacks \ zoomCallbacks' :
            mapView' # mapView => cb.mmsi = selectedVesselMMSI
       /\ \A tm \in popupTimers \ popupTimers' :
            (Cardinality(popupTimers') < Cardinality(popupTimers))
                => tm.mmsi = selectedVesselMMSI]_vars

\* the category of statusColors whose colour the icon of marker m shows
DisplayedCategory(m) ==
    CHOOSE k \in DOMAIN statusColors : statusColors[k] = markers[m].icon.color

\* every member of the cluster has a record whose category is missing or is
\* one of the six, so that createClusterIcon counts every member
AllCounted(members) ==
    \A m \in members :
        \/ ~Truthy(vessels[m].status_category)
        \/ StatusKey(vessels[m].status_category) # "none"

\* C31: createClusterIcon counts every member marker of a cluster under the
\* status category that the marker's own icon displays at that moment, so the
\* counts of the cluster icon are those of the icons of its member markers,
\* also after a member's vessel received a later non-plottable record with
\* another status. Stated for the clusters all of whose members are counted.
C31_CountsFollowMemberIcons ==
    [][(Repainted /\ AllCounted(clusterIcon'.members)) =>
          \A i \in 1..Len(StatusOrder) :
              clusterIcon'.icon.statusCounts[StatusOrder[i]]
                  = Cardinality({m \in clusterIcon'.members :
                                    DisplayedCategory(m) = StatusOrder[i]})]_vars

\* C32: in every state the ids that have a marker are ids of the registry,
\* and no step (an inbound update, a selection, a timer, a list render, a
\* connection change) removes an id from the registry or from the markers.
C32_RegistryAndMarkersOnlyGrow ==
    [][/\ DOMAIN markers \subseteq DOMAIN vessels
       /\ DOMAIN markers' \subseteq DOMAIN vessels'
       /\ DOMAIN vessels \subseteq DOMAIN vessels'
       /\ DOMAIN markers \subseteq DOMAIN markers']_vars

\* two vessels are known and one of them has a marker; since then the vessel
\* without marker was selected, the list was rendered and the connection was
\* lost
C32_Witness_KeptThroughEvents ==
    /\ DOMAIN vessels = {1, 2}
    /\ DOMAIN markers = {1}
    /\ selectedVesselMMSI = 2
    /\ vesselList.kind = "cards"
    /\ listTimers = << >>
    /\ connectionStatus = "Disconnected"

====
